---- MODULE Spec2Model ----
(***************************************************************************)
(* A model of tracecube's ETL (src/etl/run_etl.py): the download cache,    *)
(* the archive resolver path_to_instance, the unit formatter _format_unit, *)
(* the per-source loop of main and the output written after it.            *)
(*                                                                         *)
(* Python strings are sequences of one-character strings, so that split,   *)
(* join, suffix and length are computed and not assumed.  A pathlib path   *)
(* is the sequence of its parts.  An optional value is a sequence of       *)
(* length 0 (None) or 1.                                                   *)
(***************************************************************************)
EXTENDS Integers, Sequences, FiniteSets, TLC

VARIABLES
    \* _format_unit
    fact, unitOut, upc,
    \* download: the files under RAW, the requests sent, the calls made
    raw, netCalls, fetched,
    \* path_to_instance: the order of directory listings, the artifact and the
    \* members of its archive, the calls made
    scanRev, artifact, archive, resolved,
    \* main
    urls, i, pc, p, inst, x, all_rows, downloaded, openModels, handled, out

vars == <<fact, unitOut, upc, raw, netCalls, fetched,
          scanRev, artifact, archive, resolved,
          urls, i, pc, p, inst, x, all_rows, downloaded, openModels, handled, out>>

unitVars == <<fact, unitOut, upc>>
fetchVars == <<raw, netCalls, fetched>>
resolveVars == <<scanRev, artifact, archive, resolved>>
mainVars == <<urls, i, pc, p, inst, x, all_rows, downloaded, openModels, handled, out>>

-----------------------------------------------------------------------------
(* Bounds of the model.                                                    *)

MaxMeasures == 2
MaxFetches == 3
MaxChunks == 2
MaxRuns == 2
MaxSources == 2
MaxFacts == 2

-----------------------------------------------------------------------------
(* Python's str and list operations.                                       *)

None == << >>
Some(v) == << v >>

RECURSIVE Concat(_)
\* "".join(ss)
Concat(ss) == IF ss = << >> THEN << >> ELSE Head(ss) \o Concat(Tail(ss))

RECURSIVE Join(_, _)
\* sep.join(ss), ss a sequence of strings
Join(sep, ss) ==
    IF ss = << >> THEN << >>
    ELSE IF Len(ss) = 1 THEN ss[1]
    ELSE ss[1] \o sep \o Join(sep, Tail(ss))

\* the elements a str yields when iterated: its characters
Chars(s) == [k \in 1..Len(s) |-> << s[k] >>]

RECURSIVE Split(_, _)
\* s.split(c), c one character
Split(s, c) ==
    IF \A k \in 1..Len(s) : s[k] # c THEN << s >>
    ELSE LET k == CHOOSE k \in 1..Len(s) :
                      s[k] = c /\ \A j \in 1..(k - 1) : s[j] # c
         IN  << SubSeq(s, 1, k - 1) >> \o Split(SubSeq(s, k + 1, Len(s)), c)

EndsWith(s, t) ==
    Len(s) >= Len(t) /\ SubSeq(s, Len(s) - Len(t) + 1, Len(s)) = t

LowerChar(c) ==
    CASE c = "Z" -> "z" [] c = "I" -> "i" [] c = "P" -> "p" [] OTHER -> c

\* s.lower()
Lower(s) == [k \in 1..Len(s) |-> LowerChar(s[k])]

-----------------------------------------------------------------------------
(* _format_unit                                                            *)

USD == <<"U", "S", "D">>
shares == <<"s", "h", "a", "r", "e", "s">>
metre == <<"m">>
Measure == {USD, shares, metre}

MeasureList == UNION {[1..n -> Measure] : n \in 0..MaxMeasures}

\* fact.unit: absent, present with no measures, or (numerator, denominator)
Unit == {None} \cup {Some(None)} \cup {Some(Some(<<n, d>>)) : n \in MeasureList, d \in MeasureList}

FormatUnitStarJoin(u) == Join(<<"*">>, Chars(u))

_format_unit(f) ==
    IF f = None \/ f[1] = None THEN None
    ELSE LET measures == f[1][1]
             num == [k \in 1..Len(measures[1]) |-> FormatUnitStarJoin(measures[1][k])]
             den == [k \in 1..Len(measures[2]) |-> FormatUnitStarJoin(measures[2][k])]
             parts == (IF num # << >> THEN << Join(<<".">>, num) >> ELSE << >>)
                      \o (IF den # << >> THEN << <<"/">> \o Join(<<".">>, den) >> ELSE << >>)
         IN  IF parts # << >> THEN Some(Concat(parts)) ELSE None

UnitIdle ==
    /\ fact = None /\ unitOut = None /\ upc = "idle"

UnitInit ==
    /\ fact \in Unit
    /\ unitOut = None
    /\ upc = "call"

FormatUnit ==
    /\ upc = "call"
    /\ unitOut' = _format_unit(fact)
    /\ upc' = "done"
    /\ fact' = fact

-----------------------------------------------------------------------------
(* download                                                                *)

UrlZip == <<"h", "/", "f", ".", "z", "i", "p">>
UrlZipMirror == <<"k", "/", "f", ".", "z", "i", "p">>
UrlDoc == <<"h", "/", "d", ".", "x", "h", "t", "m", "l">>
UrlDir == <<"h", "/", "g", "/">>
Url == {UrlZip, UrlZipMirror, UrlDoc, UrlDir}

\* RAW = ROOT / "data" / "raw", one part here
RAW == << <<"r", "a", "w">> >>

\* hashlib.sha1(url.encode()).hexdigest(), shortened to two digits: a function
\* of the URL alone
Sha1Hex(url) ==
    CASE url = UrlZip -> <<"3", "c">>
      [] url = UrlZipMirror -> <<"9", "e">>
      [] url = UrlDoc -> <<"5", "1">>
      [] OTHER -> <<"0", "a">>

\* fn = url.split("/")[-1] or f"file_{sha1}.xbrl"
DerivedName(url) ==
    LET segs == Split(url, "/")
        last == segs[Len(segs)]
    IN  IF last # << >> THEN last
        ELSE <<"f", "i", "l", "e", "_">> \o Sha1Hex(url) \o <<".", "x", "b", "r", "l">>

CachePath(url) == RAW \o << DerivedName(url) >>

\* the chunks r.iter_content yields for url
Body(url) == [k \in 1..MaxChunks |-> <<url, k>>]

\* what the network does to one request: the whole body arrives, raise_for_status
\* raises, requests.get raises, or the stream breaks after k chunks were written
NetOutcome ==
    {[kind |-> "ok", k |-> MaxChunks], [kind |-> "status", k |-> 0],
     [kind |-> "connect", k |-> 0]}
    \cup {[kind |-> "stream", k |-> k] : k \in 0..MaxChunks}

\* path.exists()
Exists(disk, path) == path \in DOMAIN disk

\* a download that never looks at the cache
downloadAlways(disk, url, net) ==
    LET path == CachePath(url)
    IN  IF net.kind \in {"status", "connect"}
        THEN [disk |-> disk, ret |-> None, sent |-> 1]
        ELSE IF net.kind = "stream"
        THEN [disk |-> (path :> SubSeq(Body(url), 1, net.k)) @@ disk,
              ret |-> None, sent |-> 1]
        ELSE [disk |-> (path :> Body(url)) @@ disk, ret |-> Some(path), sent |-> 1]

\* download(url) on the directory disk when the network answers net:
\* the directory afterwards, the path returned (None: it raised), the requests sent
download(disk, url, net) ==
    LET path == CachePath(url)
    IN  IF Exists(disk, path)
        THEN [disk |-> disk, ret |-> Some(path), sent |-> 0]
        ELSE IF net.kind \in {"status", "connect"}
        THEN [disk |-> disk, ret |-> None, sent |-> 1]
        ELSE IF net.kind = "stream"
        THEN [disk |-> (path :> SubSeq(Body(url), 1, net.k)) @@ disk,
              ret |-> None, sent |-> 1]
        ELSE [disk |-> (path :> Body(url)) @@ disk, ret |-> Some(path), sent |-> 1]

EmptyDisk == [q \in {} |-> << >>]

FetchInit ==
    /\ raw = EmptyDisk
    /\ netCalls = 0
    /\ fetched = << >>

\* one call of download, in this run or a later one: RAW persists
Fetch(url, net) ==
    /\ Len(fetched) < MaxFetches
    /\ LET r == download(raw, url, net)
       IN  /\ raw' = r.disk
           /\ netCalls' = netCalls + r.sent
           /\ fetched' = Append(fetched,
                  [url |-> url, ret |-> r.ret, sent |-> r.sent,
                   existed |-> Exists(raw, CachePath(url)),
                   same |-> r.disk = raw])

-----------------------------------------------------------------------------
(* path_to_instance                                                        *)

DotZip == <<".", "z", "i", "p">>
DotXhtml == <<".", "x", "h", "t", "m", "l">>
DotHtml == <<".", "h", "t", "m", "l">>
DotGz == <<".", "g", "z">>
Reports == <<"r", "e", "p", "o", "r", "t", "s">>
Unzipped == <<"_", "u", "n", "z", "i", "p", "p", "e", "d">>

\* name.rfind("."), 0 when there is no dot
RFindDot(name) ==
    IF \A k \in 1..Len(name) : name[k] # "." THEN 0
    ELSE CHOOSE k \in 1..Len(name) :
             name[k] = "." /\ \A j \in (k + 1)..Len(name) : name[j] # "."

\* pathlib: Path.name, Path.suffix, Path.stem, Path.with_suffix("")
Name(path) == path[Len(path)]
Suffix(path) ==
    LET k == RFindDot(Name(path))
    IN  IF 1 < k /\ k < Len(Name(path)) THEN SubSeq(Name(path), k, Len(Name(path))) ELSE << >>
Stem(path) ==
    LET k == RFindDot(Name(path))
    IN  IF 1 < k /\ k < Len(Name(path)) THEN SubSeq(Name(path), 1, k - 1) ELSE Name(path)
WithoutSuffix(path) ==
    SubSeq(path, 1, Len(path) - 1)
    \o << SubSeq(Name(path), 1, Len(Name(path)) - Len(Suffix(path))) >>

\* len(str(x)): the parts joined by "/"
StrLen(path) == Len(Join(<<"/">>, path))

\* a key that forgets the reports directory
SortKeyLengthOnly(path) == << 0, StrLen(path) >>

\* the sort key (0 if "reports" in x.parts else 1, len(str(x)))
SortKey(path) ==
    << IF \E k \in 1..Len(path) : path[k] = Reports THEN 0 ELSE 1, StrLen(path) >>

KeyLess(a, b) == a[1] < b[1] \/ (a[1] = b[1] /\ a[2] < b[2])

\* sorted(list, key=...)[0]: Python's sort is stable, so of the elements with the
\* least key the first of the list
SortedFirst(list) ==
    list[CHOOSE k \in 1..Len(list) :
             /\ \A j \in 1..Len(list) : ~KeyLess(SortKey(list[j]), SortKey(list[k]))
             /\ \A j \in 1..(k - 1) : KeyLess(SortKey(list[k]), SortKey(list[j]))]

\* the members of the archives of the model, relative to the extraction directory
MemberSeq ==
    << << Reports, <<"r", ".", "x", "h", "t", "m", "l">> >>,
       << <<"a", ".", "h", "t", "m", "l">> >>,
       << <<"b", ".", "h", "t", "m", "l">> >>,
       << Reports, <<"q", ".", "x", "h", "t", "m", "l", ".", "g", "z">> >>,
       << <<"c", ".", "h", "t", "m", "l", ".", "g", "z">> >>,
       << <<"e", ".", "h", "t", "m", "l", ".", "g", "z">> >>,
       << <<"n", ".", "z", "i", "p">> >> >>
Member == {MemberSeq[k] : k \in 1..Len(MemberSeq)}

\* the order in which a directory scan yields the names it holds is not
\* specified; it is one of two opposite orders here, the same for every scan.
\* A decompressed file is listed where its .gz member is.
ScanRank(rev, outdir, path) ==
    LET rel == SubSeq(path, Len(outdir) + 1, Len(path))
        gzrel == SubSeq(rel, 1, Len(rel) - 1) \o << Name(rel) \o DotGz >>
        rank == CHOOSE k \in 1..Len(MemberSeq) : MemberSeq[k] \in {rel, gzrel}
    IN  IF rev THEN 0 - rank ELSE rank

RECURSIVE Scan(_, _, _)
\* the paths of a set in scan order
Scan(rev, outdir, paths) ==
    IF paths = {} THEN << >>
    ELSE LET q == CHOOSE q \in paths :
                      \A o \in paths : ScanRank(rev, outdir, q) <= ScanRank(rev, outdir, o)
         IN  << q >> \o Scan(rev, outdir, paths \ {q})

\* outdir.rglob("*" + ext): the files below outdir whose name ends in ext
RGlob(disk, rev, outdir, ext) ==
    Scan(rev, outdir, {q \in DOMAIN disk :
                           /\ Len(q) > Len(outdir)
                           /\ SubSeq(q, 1, Len(outdir)) = outdir
                           /\ EndsWith(Name(q), ext)})

\* z.extractall(outdir)
ExtractAll(disk, outdir, members) ==
    [q \in DOMAIN disk \cup {outdir \o mb : mb \in members} |->
        IF \E mb \in members : q = outdir \o mb
        THEN <<"member">> ELSE disk[q]]

\* the compressed file taken for the instance
GzCandidatesCompressed(gz_path, target) == << gz_path >>

\* candidates = [target] (line 96)
GzCandidates(gz_path, target) == << target >>

\* path_to_instance(p) on the files disk, p an archive of the given members:
\* the files afterwards and the path returned (None: it raised)
path_to_instance(disk, rev, path, members) ==
    IF Lower(Suffix(path)) # DotZip THEN [disk |-> disk, ret |-> Some(path)]
    ELSE
    LET outdir == RAW \o << Stem(path) \o Unzipped >>
        ex == ExtractAll(disk, outdir, members)
        plain == RGlob(ex, rev, outdir, DotXhtml) \o RGlob(ex, rev, outdir, DotHtml)
        gz == RGlob(ex, rev, outdir, DotXhtml \o DotGz) \o RGlob(ex, rev, outdir, DotHtml \o DotGz)
        gz_path == SortedFirst(gz)
        target == WithoutSuffix(gz_path)
    IN  IF plain # << >>
        THEN [disk |-> ex, ret |-> Some(SortedFirst(plain))]
        ELSE IF gz # << >>
        THEN [disk |-> IF Exists(ex, target) THEN ex ELSE (target :> <<"gunzip">>) @@ ex,
              ret |-> Some(SortedFirst(GzCandidates(gz_path, target)))]
        ELSE [disk |-> ex, ret |-> None]

ArtifactName ==
    { <<"f", ".", "z", "i", "p">>, <<"f", ".", "Z", "I", "P">>,
      <<"d", ".", "x", "h", "t", "m", "l">> }

ResolveInit ==
    /\ artifact \in ArtifactName
    /\ raw = (RAW \o << artifact >>) :> <<"cached">>
    /\ archive \in SUBSET Member
    /\ scanRev \in BOOLEAN
    /\ resolved = << >>

\* one call of path_to_instance on the cached artifact, in this run or a later one
Resolve ==
    /\ Len(resolved) < MaxRuns
    /\ LET r == path_to_instance(raw, scanRev, RAW \o << artifact >>, archive)
       IN  /\ raw' = r.disk
           /\ resolved' = Append(resolved,
                  [ret |-> r.ret, before |-> DOMAIN raw, after |-> DOMAIN r.disk])
    /\ UNCHANGED <<scanRev, artifact, archive>>

-----------------------------------------------------------------------------
(* main: the loop over the sources                                         *)

SourceUrl == {UrlZip, UrlZipMirror, UrlDoc}

\* what the servers of the model hold: behind UrlZip an archive with two
\* compressed report documents, behind UrlZipMirror one with no report document
ZipMembers(url) ==
    IF url = UrlZip THEN {MemberSeq[4], MemberSeq[5]} ELSE {MemberSeq[7]}

\* path_to_instance(p) on a cached file: zipfile.ZipFile raises on a file that
\* is not a whole archive
ResolveCached(disk, rev, path) ==
    IF Lower(Suffix(path)) = DotZip /\ Len(disk[path]) < MaxChunks
    THEN [disk |-> disk, ret |-> None]
    ELSE path_to_instance(disk, rev, path, ZipMembers(disk[path][1][1]))

NormalizedKeys ==
    <<"concept_local", "entity_lei", "period_start", "period_end", "value",
      "unit", "decimals", "source_doc">>
ErrorKeys == <<"concept_local", "source_doc", "value">>

\* a row of extract_facts; src, the index of the source it came from, and fact
\* are kept to tell rows apart
FactRow(src, k, uri) ==
    [concept_local |-> "Revenue", source_doc |-> uri, keys |-> NormalizedKeys,
     src |-> src, fact |-> k]

\* the row appended by the except clause
ErrorRow(src, url, e) ==
    [concept_local |-> "__ERROR__", source_doc |-> url, value |-> e,
     keys |-> ErrorKeys, src |-> src]

\* the for loop goes on with the next source, or ends
NextPc(idx) == IF idx <= Len(urls) THEN "download" ELSE "output"

\* a loop that ends at the first failure
AfterExceptBreak(idx) == Len(urls) + 1

\* after the except clause the loop takes the next source
AfterExcept(idx) == idx + 1

\* a log that names the cached artifact instead of the resolved instance
AppendDownloadedCached(log, url, path) == Append(log, <<url, Name(p[1])>>)

\* downloaded.append((u, inst.name))
AppendDownloaded(log, url, path) == Append(log, <<url, Name(path)>>)

MainIdle ==
    /\ urls = << >> /\ i = 0 /\ pc = "idle" /\ p = None /\ inst = None /\ x = None
    /\ all_rows = << >> /\ downloaded = << >> /\ openModels = {} /\ handled = << >>
    /\ out = None

MainInit ==
    /\ urls \in UNION {[1..n -> SourceUrl] : n \in 0..MaxSources}
    /\ i = 1
    /\ pc = IF urls = << >> THEN "output" ELSE "download"
    /\ p = None /\ inst = None /\ x = None
    /\ all_rows = << >>
    /\ downloaded = << >>
    /\ openModels = {}
    /\ handled = << >>
    /\ out = None

\* a step of the try body raised: the except clause appends the Error Record
Except(step) ==
    /\ all_rows' = Append(all_rows, ErrorRow(i, urls[i], step))
    /\ handled' = Append(handled, [url |-> urls[i], raised |-> step, inst |-> inst,
                                   facts |-> IF x = None THEN 0 ELSE x[1].facts])
    /\ i' = AfterExcept(i)
    /\ pc' = NextPc(AfterExcept(i))
    /\ p' = None /\ inst' = None /\ x' = None

\* p = download(u)
Download(net) ==
    /\ pc = "download"
    /\ LET r == download(raw, urls[i], net)
       IN  /\ raw' = r.disk
           /\ netCalls' = netCalls + r.sent
           /\ IF r.ret = None
              THEN Except("download")
              ELSE /\ p' = r.ret
                   /\ pc' = "path_to_instance"
                   /\ UNCHANGED <<i, inst, x, all_rows, handled>>
    /\ UNCHANGED <<urls, downloaded, openModels, out>>

\* inst = path_to_instance(p); downloaded.append((u, inst.name))
PathToInstance ==
    /\ pc = "path_to_instance"
    /\ LET r == ResolveCached(raw, scanRev, p[1])
       IN  /\ raw' = r.disk
           /\ IF r.ret = None
              THEN Except("path_to_instance") /\ UNCHANGED downloaded
              ELSE /\ inst' = r.ret
                   /\ downloaded' = AppendDownloaded(downloaded, urls[i], r.ret[1])
                   /\ pc' = "load_xbrl"
                   /\ UNCHANGED <<i, p, x, all_rows, handled>>
    /\ UNCHANGED <<urls, netCalls, openModels, out>>

\* x = load_xbrl(str(inst)): the parser raises, or returns a model with some
\* number of matching facts
LoadXbrl(ok, facts) ==
    /\ pc = "load_xbrl"
    /\ IF ~ok
       THEN Except("load_xbrl") /\ UNCHANGED openModels
       ELSE /\ x' = Some([src |-> i, facts |-> facts])
            /\ openModels' = openModels \cup {i}
            /\ pc' = "dump_sample_facts"
            /\ UNCHANGED <<i, p, inst, all_rows, handled>>
    /\ UNCHANGED <<urls, raw, netCalls, downloaded, out>>

\* dump_sample_facts(x, limit=300) and the two prints
DumpSampleFacts(ok) ==
    /\ pc = "dump_sample_facts"
    /\ IF ~ok
       THEN Except("dump_sample_facts")
       ELSE /\ pc' = "extract_facts"
            /\ UNCHANGED <<i, p, inst, x, all_rows, handled>>
    /\ UNCHANGED <<urls, raw, netCalls, downloaded, openModels, out>>

\* all_rows.extend(extract_facts(x, FACT_LOCALNAMES))
ExtractFacts(ok) ==
    /\ pc = "extract_facts"
    /\ IF ~ok
       THEN Except("extract_facts")
       ELSE /\ all_rows' = all_rows \o [k \in 1..x[1].facts |-> FactRow(i, k, inst[1])]
            /\ pc' = "close"
            /\ UNCHANGED <<i, p, inst, x, handled>>
    /\ UNCHANGED <<urls, raw, netCalls, downloaded, openModels, out>>

\* x.close(), the last statement of the try body
Close(ok) ==
    /\ pc = "close"
    /\ IF ~ok
       THEN Except("close") /\ UNCHANGED openModels
       ELSE /\ openModels' = openModels \ {x[1].src}
            /\ handled' = Append(handled, [url |-> urls[i], raised |-> "none",
                                           inst |-> inst, facts |-> x[1].facts])
            /\ i' = i + 1
            /\ pc' = NextPc(i + 1)
            /\ p' = None /\ inst' = None /\ x' = None
            /\ UNCHANGED all_rows
    /\ UNCHANGED <<urls, raw, netCalls, downloaded, out>>

-----------------------------------------------------------------------------
(* main: the output                                                        *)

RECURSIVE AddKeys(_, _)
AddKeys(cols, keys) ==
    IF keys = << >> THEN cols
    ELSE AddKeys(IF \E k \in 1..Len(cols) : cols[k] = Head(keys)
                 THEN cols ELSE Append(cols, Head(keys)), Tail(keys))

RECURSIVE FrameColumns(_, _)
\* pd.DataFrame(list of dicts).columns: the keys in the order they first appear
FrameColumns(cols, recs) ==
    IF recs = << >> THEN cols
    ELSE FrameColumns(AddKeys(cols, Head(recs).keys), Tail(recs))

\* the columns of the frame that replaces an empty one (lines 227-238)
EmptyFrameColumns == NormalizedKeys

\* what lines 213-256 write for the records and the download log
Output(recs, log) ==
    LET empty == recs = << >>
        columns == IF empty THEN EmptyFrameColumns ELSE FrameColumns(<< >>, recs)
    IN  [csv |-> IF empty THEN None
                 ELSE Some([header |-> FrameColumns(<< >>, recs), rows |-> Len(recs)]),
         parquet |-> [header |-> columns, rows |-> Len(recs)],
         excel |-> [header |-> columns, rows |-> Len(recs)],
         sources |-> log,
         manifest |-> [rows |-> Len(recs), columns |-> columns]]

Materialize ==
    /\ pc = "output"
    /\ out' = Some(Output(all_rows, downloaded))
    /\ pc' = "done"
    /\ UNCHANGED <<urls, i, p, inst, x, all_rows, downloaded, openModels, handled,
                   raw, netCalls>>

-----------------------------------------------------------------------------
(* The specifications.                                                     *)

ResolveIdle ==
    /\ scanRev = FALSE /\ artifact = << >> /\ archive = {} /\ resolved = << >>

\* one run of main on an empty cache
Init == MainInit /\ FetchInit /\ ResolveIdle /\ UnitIdle

Next ==
    \/ \E net \in NetOutcome : Download(net) /\ UNCHANGED <<unitVars, resolveVars, fetched>>
    \/ PathToInstance /\ UNCHANGED <<unitVars, resolveVars, fetched>>
    \/ \E ok \in BOOLEAN, facts \in 0..MaxFacts :
           LoadXbrl(ok, facts) /\ UNCHANGED <<unitVars, resolveVars, fetched>>
    \/ \E ok \in BOOLEAN : DumpSampleFacts(ok) /\ UNCHANGED <<unitVars, resolveVars, fetched>>
    \/ \E ok \in BOOLEAN : ExtractFacts(ok) /\ UNCHANGED <<unitVars, resolveVars, fetched>>
    \/ \E ok \in BOOLEAN : Close(ok) /\ UNCHANGED <<unitVars, resolveVars, fetched>>
    \/ Materialize /\ UNCHANGED <<unitVars, resolveVars, fetched>>

Spec == Init /\ [][Next]_vars

\* calls of download, one after another, on a cache that starts empty
FetchSpecInit == FetchInit /\ MainIdle /\ ResolveIdle /\ UnitIdle

FetchNext ==
    \E url \in Url, net \in NetOutcome :
        Fetch(url, net) /\ UNCHANGED <<unitVars, resolveVars, mainVars>>

SpecFetch == FetchSpecInit /\ [][FetchNext]_vars

\* calls of path_to_instance, one after another, on one cached artifact
ResolveSpecInit ==
    ResolveInit /\ netCalls = 0 /\ fetched = << >> /\ MainIdle /\ UnitIdle

ResolveNext == Resolve /\ UNCHANGED <<unitVars, mainVars, netCalls, fetched>>

SpecResolve == ResolveSpecInit /\ [][ResolveNext]_vars

\* one call of _format_unit on one fact
UnitSpecInit == UnitInit /\ FetchInit /\ ResolveIdle /\ MainIdle

UnitNext == FormatUnit /\ UNCHANGED <<fetchVars, resolveVars, mainVars>>

SpecUnit == UnitSpecInit /\ [][UnitNext]_vars

-----------------------------------------------------------------------------
(* The claims about the loop of main, under Spec.                          *)

SourceEnded == pc \in {"output", "done"}

RowsOf(k) == {r \in 1..Len(all_rows) : all_rows[r].src = k}
ErrorRowsOf(k) == {r \in RowsOf(k) : all_rows[r].concept_local = "__ERROR__"}
FactRowsOf(k) == {r \in RowsOf(k) : all_rows[r].concept_local # "__ERROR__"}

\* C1: every source is handled exactly once, in declaration order, whichever
\* step fails in whichever source; a failure never ends the loop early; the
\* run is always at a step of the loop with a source to work on, at the
\* output, or done with the output written: no step leaves the loop otherwise.
C1_EverySourceHandledInOrder ==
    /\ Len(handled) = i - 1
    /\ Len(handled) <= Len(urls)
    /\ \A k \in 1..Len(handled) : handled[k].url = urls[k]
    /\ SourceEnded => Len(handled) = Len(urls)
    /\ pc \in {"download", "path_to_instance", "load_xbrl", "dump_sample_facts",
               "extract_facts", "close", "output", "done"}
    /\ ~SourceEnded => i \in 1..Len(urls)
    /\ pc = "done" => out # None

\* a run in which the first source failed and the second gave rows
C1_Witness ==
    /\ pc = "done" /\ Len(urls) = 2
    /\ handled[1].raised = "load_xbrl"
    /\ handled[2].raised = "none" /\ FactRowsOf(2) # {}

\* C2: when the loop has ended, a source in which a step raised has exactly one
\* Error Record (marker __ERROR__, source_doc its URL) and no Normalized
\* Record, a source in which none raised has all its Normalized Records and no
\* Error Record, and the row count is the sum.
C2_ErrorRowInPlaceOfFacts ==
    SourceEnded =>
        /\ \A k \in 1..Len(urls) :
               IF handled[k].raised # "none"
               THEN /\ Cardinality(ErrorRowsOf(k)) = 1
                    /\ \A r \in ErrorRowsOf(k) : all_rows[r].source_doc = urls[k]
                    /\ FactRowsOf(k) = {}
               ELSE /\ ErrorRowsOf(k) = {}
                    /\ Cardinality(FactRowsOf(k)) = handled[k].facts
        /\ Len(all_rows) = Cardinality(UNION {RowsOf(k) : k \in 1..Len(urls)})

RECURSIVE ExpectedLog(_)
\* the entries of the sources, of the first n, whose fetch and resolve succeeded
ExpectedLog(n) ==
    IF n = 0 THEN << >>
    ELSE IF handled[n].raised \in {"download", "path_to_instance"}
    THEN ExpectedLog(n - 1)
    ELSE Append(ExpectedLog(n - 1), <<urls[n], Name(handled[n].inst[1])>>)

\* C6: after the loop the download log holds (URL, resolved filename) for
\* exactly the sources whose fetch and resolve succeeded, once each, in
\* declaration order, whatever load, dump, normalize or close did afterwards.
C6_DownloadLog ==
    SourceEnded => downloaded = ExpectedLog(Len(urls))

\* a source that is in the log although its load raised, after one that is not
C6_Witness ==
    /\ SourceEnded /\ Len(urls) = 2
    /\ handled[1].raised = "download"
    /\ handled[2].raised = "load_xbrl"
    /\ urls[2] = UrlZip
    /\ Len(downloaded) = 1

\* C7: at most one model of the Fact Model Provider is open at any point.
C7_AtMostOneModelOpen == Cardinality(openModels) <= 1

Range(f) == {f[k] : k \in DOMAIN f}

\* C5: whatever records were produced, every table written and the manifest
\* carry the 8 declared columns.
C5_FixedColumns ==
    pc = "done" =>
        /\ out[1].csv # None
        /\ Range(out[1].csv[1].header) = Range(NormalizedKeys)
        /\ Range(out[1].parquet.header) = Range(NormalizedKeys)
        /\ Range(out[1].excel.header) = Range(NormalizedKeys)
        /\ Range(out[1].manifest.columns) = Range(NormalizedKeys)

-----------------------------------------------------------------------------
(* The claims about download, under SpecFetch.                             *)

\* the filenames the URLs of the model derive: the last path segment, or
\* file_<digest>.xbrl when it is empty
ClaimedName(url) ==
    CASE url \in {UrlZip, UrlZipMirror} -> <<"f", ".", "z", "i", "p">>
      [] url = UrlDoc -> <<"d", ".", "x", "h", "t", "m", "l">>
      [] OTHER -> <<"f", "i", "l", "e", "_", "0", "a", ".", "x", "b", "r", "l">>

\* C3: once a file exists at the filename derived from a URL, a fetch of that
\* URL sends no request, leaves every cached file as it was and returns the
\* cache path of the URL, the same as every other fetch of it that returned.
C3_FetchIdempotentOnCache ==
    \A k \in 1..Len(fetched) :
        /\ fetched[k].existed =>
               /\ fetched[k].sent = 0
               /\ fetched[k].same
               /\ fetched[k].ret = Some(RAW \o << ClaimedName(fetched[k].url) >>)
        /\ \A j \in 1..(k - 1) :
               (/\ fetched[j].url = fetched[k].url
                /\ fetched[j].ret # None
                /\ fetched[k].ret # None) => fetched[j].ret = fetched[k].ret

\* a URL with an empty last segment fetched from the network, then from the cache
C3_Witness ==
    /\ Len(fetched) >= 2
    /\ fetched[1].url = UrlDir /\ fetched[1].sent = 1 /\ fetched[1].ret # None
    /\ fetched[2].url = UrlDir /\ fetched[2].existed /\ fetched[2].sent = 0

\* C4: after a fetch that raised, the next fetch of the same URL goes to the
\* network again.
C4_FailedFetchIsRetried ==
    \A k \in 1..(Len(fetched) - 1) :
        (fetched[k].ret = None /\ fetched[k + 1].url = fetched[k].url)
            => fetched[k + 1].sent = 1

-----------------------------------------------------------------------------
(* The claims about path_to_instance, under SpecResolve.                   *)

ArtifactPath == RAW \o << artifact >>
IsArchive == EndsWith(Lower(artifact), DotZip)
ExtractionDir == RAW \o << SubSeq(artifact, 1, Len(artifact) - Len(DotZip)) \o Unzipped >>

\* the files below the extraction directory once the archive is extracted
\* over what a call found there
FilesAfterExtraction(c) == c.before \cup {ExtractionDir \o mb : mb \in archive}
IsPlainDocument(q) ==
    /\ Len(q) > Len(ExtractionDir)
    /\ SubSeq(q, 1, Len(ExtractionDir)) = ExtractionDir
    /\ EndsWith(q[Len(q)], DotXhtml) \/ EndsWith(q[Len(q)], DotHtml)
IsCompressedDocument(q) ==
    /\ Len(q) > Len(ExtractionDir)
    /\ SubSeq(q, 1, Len(ExtractionDir)) = ExtractionDir
    /\ EndsWith(q[Len(q)], DotXhtml \o DotGz) \/ EndsWith(q[Len(q)], DotHtml \o DotGz)
Decompressed(q) ==
    SubSeq(q, 1, Len(q) - 1) \o << SubSeq(q[Len(q)], 1, Len(q[Len(q)]) - Len(DotGz)) >>

RECURSIVE PathStringLength(_)
PathStringLength(q) ==
    IF Len(q) = 1 THEN Len(q[1]) ELSE Len(q[1]) + 1 + PathStringLength(Tail(q))
HasReportsSegment(q) == \E k \in 1..Len(q) : q[k] = Reports
\* a comes no later than b: a reports segment first, then the shorter path string
NoLater(a, b) ==
    \/ HasReportsSegment(a) /\ ~HasReportsSegment(b)
    \/ /\ HasReportsSegment(a) = HasReportsSegment(b)
       /\ PathStringLength(a) <= PathStringLength(b)

-----------------------------------------------------------------------------
(* The claim about _format_unit, under SpecUnit.                           *)

\* the unit string the claim describes: the measure identifiers, unaltered,
\* joined with ".", and "/" before a non-empty denominator
ClaimedUnit(f) ==
    IF f = None \/ f[1] = None THEN None
    ELSE LET num == f[1][1][1]
             den == f[1][1][2]
         IN  IF num = << >> /\ den = << >> THEN None
             ELSE Some(Join(<<".">>, num)
                       \o (IF den = << >> THEN << >> ELSE <<"/">> \o Join(<<".">>, den)))

\* C9: the unit string of a fact is its numerator measures joined with ".",
\* then "/" and the denominator measures joined with "." when there are any,
\* each measure identifier unaltered; no unit or no unit structure gives null.
C9_UnitString == upc = "done" => unitOut = ClaimedUnit(fact)

====
